---- MODULE Spec2Model ----
(***************************************************************************)
(* identify-ip: an RDAP client that resolves an IP address to the name of  *)
(* its registrant (src/src/identify_ip/idip.py).                           *)
(*                                                                         *)
(* Time is counted in ticks of 0.1 s, the unit in which every duration of  *)
(* the program (0.2 s throttle, 0..0.5 s jitter, whole seconds of          *)
(* Retry-After) is an integer.                                             *)
(*                                                                         *)
(* JSON values are tagged records, so that the isinstance / len / truth    *)
(* tests of the code are tests on the tag:                                 *)
(*   null, str, num, list (a sequence of values), obj (a mapping from      *)
(*   strings to values).                                                   *)
(***************************************************************************)
EXTENDS Integers, Sequences, FiniteSets, TLC

VARIABLES
    clock,          \* time.monotonic(), in ticks
    _last_call_ts,   \* the module global _last_call_ts
    tsVersion,      \* history: the number of writes of _last_call_ts so far
    th,             \* per thread: program position and locals
    calls,          \* history: the number of top-level calls started
    getLog,         \* history: the session GETs issued, in order
    input,          \* the argument of the pure function under check
    output,         \* its result
    phase           \* "input" or "output" (pure functions); "run" otherwise

vars == <<clock, _last_call_ts, tsVersion, th, calls, getLog, input, output, phase>>

----------------------------------------------------------------------------
(* JSON values and the Python operations the code applies to them *)

JNull == [t |-> "null"]
JStr(s) == [t |-> "str", s |-> s]
JNum(n) == [t |-> "num", n |-> n]
JList(q) == [t |-> "list", items |-> q]
JObj(f) == [t |-> "obj", fields |-> f]

None == JNull

\* bool(v): None, "", 0, [] and {} are false
Truthy(v) ==
    CASE v.t = "null" -> FALSE
      [] v.t = "str" -> v.s # ""
      [] v.t = "num" -> v.n # 0
      [] v.t = "list" -> Len(v.items) > 0
      [] v.t = "obj" -> DOMAIN v.fields # {}

\* a or b
PyOr(a, b) == IF Truthy(a) THEN a ELSE b

\* o.get(k) of a JSON object (a Python dict with string keys)
Get(o, k) == IF k \in DOMAIN o.fields THEN o.fields[k] ELSE None

\* hash(v) succeeds: lists and dicts are unhashable
Hashable(v) == v.t \in {"null", "str", "num"}

\* A Python dict built by the code: a function from hashable values to values
EmptyDict == [k \in {} |-> None]
DictSet(d, k, v) == [x \in (DOMAIN d) \cup {k} |-> IF x = k THEN v ELSE d[x]]
DictGet(d, k) == IF k \in DOMAIN d THEN d[k] ELSE None

\* The outcome of a call: a returned value or a raised exception
Ret(v) == [exc |-> "none", val |-> v]
Raise(e) == [exc |-> e, val |-> None]

----------------------------------------------------------------------------
(* parse_vcard_array, lines 51-66 *)

RECURSIVE VcardLoop(_, _, _)
\* the for loop of lines 61-65 over properties[i..], result so far
VcardLoop(props, i, result) ==
    IF i > Len(props) THEN Ret(result)
    ELSE LET prop == props[i] IN
         IF ~(prop.t = "list" /\ Len(prop.items) = 4)
         THEN VcardLoop(props, i + 1, result)
         ELSE LET name == prop.items[1]
                  value == prop.items[4]
              IN IF ~Hashable(name)
                 THEN Raise("TypeError")     \* result[name]: unhashable type
                 ELSE VcardLoop(props, i + 1, DictSet(result, name, value))

parse_vcard_array(vcard_array) ==
    IF vcard_array.t # "list" \/ Len(vcard_array.items) # 2
    THEN Ret(EmptyDict)
    ELSE LET kind == vcard_array.items[1]
             properties == vcard_array.items[2]
         IN IF kind # JStr("vcard") \/ properties.t # "list"
            THEN Ret(EmptyDict)
            ELSE VcardLoop(properties.items, 1, EmptyDict)

(* get_vcard_name, lines 69-76 *)

get_vcard_name_no_priority(vcard) ==
    PyOr(PyOr(PyOr(DictGet(vcard, JStr("org")), DictGet(vcard, JStr("fn"))),
              DictGet(vcard, JStr("name"))),
         DictGet(vcard, JStr("handle")))

get_vcard_name(vcard) ==
    PyOr(PyOr(PyOr(DictGet(vcard, JStr("fn")), DictGet(vcard, JStr("org"))),
              DictGet(vcard, JStr("name"))),
         DictGet(vcard, JStr("handle")))

----------------------------------------------------------------------------
(* parse_entities, lines 79-103 *)

\* "registrant" in roles, for each type roles may have; of the strings of
\* this model only these contain the substring
RegistrantIn(roles) ==
    CASE roles.t = "list" ->
            Ret(\E i \in 1..Len(roles.items) : roles.items[i] = JStr("registrant"))
      [] roles.t = "str" -> Ret(roles.s \in {"registrant", "co-registrant"})
      [] roles.t = "obj" -> Ret("registrant" \in DOMAIN roles.fields)
      [] OTHER -> Raise("TypeError")          \* int is not iterable

\* lines 86-93 for one entity: the name it yields, None, or an exception
EntityName(entity) ==
    IF entity.t # "obj" THEN Raise("AttributeError")     \* entity.get
    ELSE LET roles == PyOr(Get(entity, "roles"), JList(<<>>))
             isin == RegistrantIn(roles)
         IN IF isin.exc # "none" THEN Raise(isin.exc)
            ELSE IF ~isin.val THEN Ret(None)
            ELSE LET vcard_array == Get(entity, "vcardArray") IN
                 IF ~Truthy(vcard_array) THEN Ret(None)
                 ELSE LET vcard == parse_vcard_array(vcard_array) IN
                      IF vcard.exc # "none" THEN Raise(vcard.exc)
                      ELSE Ret(get_vcard_name(vcard.val))

RECURSIVE ScanLevelLast(_, _)
\* the first loop, were it to keep the last name of the level, not the first
ScanLevelLast(items, i) ==
    IF i > Len(items) THEN Ret(None)
    ELSE LET rest == ScanLevelLast(items, i + 1)
             name == EntityName(items[i])
         IN IF rest.exc = "none" /\ Truthy(rest.val) THEN rest
            ELSE IF name.exc # "none" THEN name
            ELSE IF Truthy(name.val) THEN name
            ELSE rest

RECURSIVE ScanLevel(_, _)
\* the first loop, lines 85-93, over entities[i..]
ScanLevel(items, i) ==
    IF i > Len(items) THEN Ret(None)
    ELSE LET name == EntityName(items[i]) IN
         IF name.exc # "none" THEN name
         ELSE IF Truthy(name.val) THEN name
         ELSE ScanLevel(items, i + 1)

RECURSIVE parse_entities(_)
RECURSIVE RecurseLevel(_, _)
\* the second loop, lines 96-101, over entities[i..]
RecurseLevel(items, i) ==
    IF i > Len(items) THEN Ret(None)
    ELSE LET nested == PyOr(Get(items[i], "entities"), JList(<<>>)) IN
         IF ~Truthy(nested) THEN RecurseLevel(items, i + 1)
         ELSE LET name == parse_entities(nested) IN
              IF name.exc # "none" THEN name
              ELSE IF Truthy(name.val) THEN name
              ELSE RecurseLevel(items, i + 1)

parse_entities(entities) ==
    IF ~Truthy(entities) THEN Ret(None)
    ELSE IF entities.t = "num" THEN Raise("TypeError")        \* not iterable
    ELSE IF entities.t # "list" THEN Raise("AttributeError")  \* str has no .get
    ELSE LET here == ScanLevel(entities.items, 1) IN
         IF here.exc # "none" THEN here
         ELSE IF Truthy(here.val) THEN here
         ELSE RecurseLevel(entities.items, 1)

----------------------------------------------------------------------------
(* Text: a string the code parses is a sequence of characters *)

DigitChars == <<"0", "1", "2", "3", "4", "5", "6", "7", "8", "9">>
HexChars == DigitChars \o <<"a", "b", "c", "d", "e", "f">>
IsDigit(c) == \E i \in 1..10 : DigitChars[i] = c
IsHex(c) == \E i \in 1..16 : HexChars[i] = c
DigitVal(c) == (CHOOSE i \in 1..10 : DigitChars[i] = c) - 1

RECURSIVE Decimal(_)
\* the number a non-empty sequence of digits spells
Decimal(cs) ==
    IF Len(cs) = 1 THEN DigitVal(cs[1])
    ELSE 10 * Decimal(SubSeq(cs, 1, Len(cs) - 1)) + DigitVal(cs[Len(cs)])

AllDigits(cs) == Len(cs) > 0 /\ \A i \in 1..Len(cs) : IsDigit(cs[i])

\* int(text): an optional sign and digits; anything else is a ValueError
ParseInt(cs) ==
    LET signed == Len(cs) > 0 /\ cs[1] \in {"+", "-"}
        body == IF signed THEN Tail(cs) ELSE cs
    IN IF ~AllDigits(body) THEN [ok |-> FALSE, n |-> 0]
       ELSE [ok |-> TRUE,
             n |-> IF signed /\ cs[1] = "-" THEN 0 - Decimal(body) ELSE Decimal(body)]

RECURSIVE Split(_, _)
\* text.split(sep)
Split(cs, sep) ==
    IF \A i \in 1..Len(cs) : cs[i] # sep THEN <<cs>>
    ELSE LET k == CHOOSE i \in 1..Len(cs) : cs[i] = sep /\ \A j \in 1..(i - 1) : cs[j] # sep
         IN <<SubSeq(cs, 1, k - 1)>> \o Split(SubSeq(cs, k + 1, Len(cs)), sep)

----------------------------------------------------------------------------
(* ip_address(ip_str), lines 160 and 166: the standard library's parser,   *)
(* without IPv4-mapped tails and scope ids                                 *)

IsOctet(cs) ==
    /\ AllDigits(cs) /\ Len(cs) <= 3
    /\ (Len(cs) > 1 => cs[1] # "0")
    /\ Decimal(cs) <= 255

IsIPv4(cs) ==
    LET parts == Split(cs, ".")
    IN Len(parts) = 4 /\ \A i \in 1..4 : IsOctet(parts[i])

IsHextet(cs) == Len(cs) \in 1..4 /\ \A i \in 1..Len(cs) : IsHex(cs[i])

IsIPv6(cs) ==
    LET parts == Split(cs, ":")
        n == Len(parts)
        skips == { i \in 2..(n - 1) : parts[i] = <<>> }
    IN /\ n >= 3 /\ n <= 9
       /\ Cardinality(skips) <= 1
       /\ IF skips = {}
          THEN n = 8 /\ \A i \in 1..n : IsHextet(parts[i])
          ELSE LET skip == CHOOSE i \in skips : TRUE
                   hi == IF parts[1] = <<>> THEN skip - 2 ELSE skip - 1
                   lo == IF parts[n] = <<>> THEN n - skip - 1 ELSE n - skip
               IN /\ (parts[1] = <<>> => hi = 0)
                  /\ (parts[n] = <<>> => lo = 0)
                  /\ 8 - (hi + lo) >= 1
                  /\ \A i \in 1..n :
                        (parts[i] # <<>>) => IsHextet(parts[i])

\* the address accepted without a check of its text
ip_address_unchecked(ip_str) == [ok |-> TRUE, version |-> 4]

ip_address(ip_str) ==
    IF IsIPv4(ip_str) THEN [ok |-> TRUE, version |-> 4]
    ELSE IF IsIPv6(ip_str) THEN [ok |-> TRUE, version |-> 6]
    ELSE [ok |-> FALSE, version |-> 0]          \* ValueError

----------------------------------------------------------------------------
(* The answers of the server and what the lookup makes of them *)

MIN_SECONDS_BETWEEN_CALLS == 2      \* 0.2 s, line 17
RETRY_AFTER_MAX == 60               \* seconds, line 136
JITTER_MAX == 5                     \* 0.5 s, line 137

NoHeader == [present |-> FALSE, text |-> <<>>]
Header(cs) == [present |-> TRUE, text |-> cs]

\* _retry_after_seconds, lines 109-117: the seconds, or None
_retry_after_seconds(resp) ==
    LET ra == resp.retry_after IN
    IF ~ra.present \/ ra.text = <<>> THEN [some |-> FALSE, n |-> 0]
    ELSE LET v == ParseInt(ra.text) IN
         IF v.ok THEN [some |-> TRUE, n |-> v.n] ELSE [some |-> FALSE, n |-> 0]

\* resp.raise_for_status() raises HTTPError: a 4xx or 5xx status
RaisesForStatus(status) == status >= 400 /\ status < 600

\* lines 149-156: the status check, the body and the search of its entities
FinalAnswer(resp) ==
    IF RaisesForStatus(resp.status) THEN Ret(None)
    ELSE IF ~resp.body.json THEN Raise("JSONDecodeError")
    ELSE LET data == resp.body.doc IN
         IF data.t # "obj" THEN Raise("AttributeError")      \* data.get
         ELSE parse_entities(PyOr(Get(data, "entities"), JList(<<>>)))

Done(res) == [k |-> "done", res |-> res, d |-> 0]
SleepFor(d) == [k |-> "sleep", res |-> Ret(None), d |-> d]

\* lines 128-156 after the attempt-th GET has ended: the lookup is done with
\* a result, or sleeps d ticks before the follow-up GET. time.sleep raises
\* ValueError for a negative length.
AfterResponse(resp, attempt, jitter) ==
    IF resp.error THEN Done(Ret(None))                       \* RequestException
    ELSE IF attempt = 1 /\ resp.status = 429
    THEN LET ra == _retry_after_seconds(resp) IN
         IF ra.some /\ ra.n <= RETRY_AFTER_MAX
         THEN IF ra.n * 10 + jitter < 0 THEN Done(Raise("ValueError"))
              ELSE SleepFor(ra.n * 10 + jitter)
         ELSE Done(Ret(None))
    ELSE Done(FinalAnswer(resp))

(* get_ip_info, lines 164-174, and main, lines 193-214 *)

\* the text get_ip_info returns, as its parts
InfoText(filt, ip, registrant) ==
    IF filt = "registrant"
    THEN IF Truthy(registrant) THEN [form |-> "name", name |-> registrant, version |-> 0]
         ELSE [form |-> "not found", name |-> None, version |-> 0]
    ELSE IF filt = "version" THEN [form |-> "version", name |-> None, version |-> ip.version]
    ELSE [form |-> "sentence", name |-> registrant, version |-> ip.version]

NoText == [form |-> "none", name |-> None, version |-> 0]

\* JSONDecodeError is a ValueError (and a RequestException)
IsValueError(e) == e \in {"ValueError", "JSONDecodeError"}

\* main's try, lines 204-214: the exit code for what get_ip_info raised
\* ("none": it returned), or "uncaught" when the exception leaves main
MainExit(exc) ==
    IF exc = "none" THEN "0"
    ELSE IF IsValueError(exc) THEN "1"
    ELSE IF exc = "HTTPError" THEN "2"
    ELSE "uncaught"

----------------------------------------------------------------------------
(* Inputs of the pure functions *)

MaxNodes == 5       \* entity trees have at most this many entities
VCardKeys == {"fn", "org", "name", "handle", "adr"}
VCardValues == {JStr(""), JStr("Example Org"), JStr("ARIN"), None}

\* every mapping from some of the keys to the values
VCardMappings ==
    UNION { [ {JStr(k) : k \in K} -> VCardValues ] : K \in SUBSET VCardKeys }

\* a jCard with the one property fn
Card(fn) == JList(<<JStr("vcard"), JList(<<JList(<<JStr("fn"), JObj(<<>>), JStr("text"), JStr(fn)>>)>>)>>)

EntityKinds == {"admin", "registrant", "bare"}

\* the name on the card of the i-th entity of a list, in preorder
NodeName(i) ==
    <<"Org 1", "Org 2", "Org 3", "Org 4", "Org 5", "Org 6", "Org 7", "Org 8">>[i]

\* the i-th entity, of the given kind, with the given nested entities:
\* a contact that is no registrant, a registrant with a card, and a
\* registrant without one
MakeEntity(kind, i, children) ==
    CASE kind = "admin" ->
            JObj([roles |-> JList(<<JStr("administrative")>>),
                  vcardArray |-> Card(NodeName(i)), entities |-> JList(children)])
      [] kind = "registrant" ->
            JObj([roles |-> JList(<<JStr("abuse"), JStr("registrant")>>),
                  vcardArray |-> Card(NodeName(i)), entities |-> JList(children)])
      [] kind = "bare" ->
            JObj([roles |-> JList(<<JStr("registrant")>>),
                  entities |-> JList(children)])

RECURSIVE DepthSeqs(_)
\* the depth sequences of the ordered forests of n entities, in preorder:
\* the first entity is at depth 1, each next one at most one level deeper
DepthSeqs(n) ==
    IF n = 0 THEN {<<>>}
    ELSE IF n = 1 THEN {<<1>>}
    ELSE UNION { { Append(s, d) : d \in 1..(s[n - 1] + 1) } : s \in DepthSeqs(n - 1) }

\* an entity list in preorder, of n entities: the depth and the kind of each
IsForestCode(c, n) ==
    \E ds \in DepthSeqs(n), ks \in [1..n -> EntityKinds] : c = [depth |-> ds, kind |-> ks]

\* the last entity of the subtree of entity i
SubtreeEnd(ds, i) ==
    LET later == { k \in (i + 1)..Len(ds) : ds[k] <= ds[i] }
    IN IF later = {} THEN Len(ds)
       ELSE (CHOOSE k \in later : \A j \in later : k <= j) - 1

RECURSIVE BuildSiblings(_, _, _)
\* the entity list that entities i..hi of the code c spell out
BuildSiblings(c, i, hi) ==
    IF i > hi THEN <<>>
    ELSE LET e == IF SubtreeEnd(c.depth, i) < hi THEN SubtreeEnd(c.depth, i) ELSE hi
         IN <<MakeEntity(c.kind[i], i, BuildSiblings(c, i + 1, e))>>
            \o BuildSiblings(c, e + 1, hi)

EntityList(c) == BuildSiblings(c, 1, Len(c.depth))

----------------------------------------------------------------------------
(* The pure functions as one-step machines: Init draws the argument, the   *)
(* action applies the function.                                            *)

Threads == {1, 2}
Off == [pc |-> "off"]

Quiet ==
    /\ clock = 0 /\ _last_call_ts = 0 /\ tsVersion = 0
    /\ th = [t \in Threads |-> Off] /\ calls = 0 /\ getLog = <<>>

InitVcard == Quiet /\ phase = "input" /\ input \in VCardMappings /\ output = None

ApplyVcardName ==
    /\ phase = "input"
    /\ output' = get_vcard_name(input)
    /\ phase' = "output"
    /\ UNCHANGED <<clock, _last_call_ts, tsVersion, th, calls, getLog, input>>

SpecVcard == InitVcard /\ [][ApplyVcardName]_vars

InitEntities ==
    Quiet /\ phase = "input" /\ output = Ret(None)
    /\ \E n \in 0..MaxNodes : IsForestCode(input, n)

ApplyParseEntities ==
    /\ phase = "input"
    /\ output' = parse_entities(JList(EntityList(input)))
    /\ phase' = "output"
    /\ UNCHANGED <<clock, _last_call_ts, tsVersion, th, calls, getLog, input>>

SpecEntities == InitEntities /\ [][ApplyParseEntities]_vars

----------------------------------------------------------------------------
(* Inputs of the lookup: addresses, filters, answers of the server *)

MaxCalls == 2       \* lookups started by the embedding application
MaxDelay == 1       \* ticks a GET, a pause between calls or an oversleep lasts

IpStrings ==
    { <<"9", "3", ".", "1", "8", "4", ".", "2", "1", "6", ".", "3", "4">>,
      <<"2", "0", "0", "1", ":", "d", "b", "8", ":", ":", "1">>,
      <<"2", "5", "6", ".", "1", ".", "1", ".", "1">>,
      <<"n", "o", "t", "-", "a", "n", "-", "i", "p">>,
      <<>> }

Filters == {"all", "registrant", "version"}

Prop(name, value) == JList(<<name, JObj(<<>>), JStr("text"), value>>)
VCard(props) == JList(<<JStr("vcard"), JList(props)>>)
Registrant(vcardArray) ==
    JObj([roles |-> JList(<<JStr("registrant")>>), vcardArray |-> vcardArray])
Doc(entities) == JObj([entities |-> entities])

GoodDoc == Doc(JList(<<Registrant(Card("Example Org"))>>))

Docs ==
    { GoodDoc,
      JObj(<<>>),                                   \* no entities
      Doc(None),
      Doc(JList(<<JObj([entities |-> JList(<<Registrant(Card("Nested Org"))>>)])>>)),
      Doc(JList(<<Registrant(VCard(<<Prop(JNum(5), JStr("x")),
                                     Prop(JStr("org"), JStr("ARIN"))>>))>>)),
      \* malformed: a document that is a list, an entity that is a string,
      \* an entities member that is a string or a number, roles that is a
      \* number, a vcardArray of one element, a property of three elements,
      \* a property whose name is a list
      JList(<<>>),
      Doc(JList(<<JStr("x")>>)),
      Doc(JStr("abc")),
      Doc(JNum(5)),
      Doc(JList(<<JObj([roles |-> JNum(7)])>>)),
      Doc(JList(<<Registrant(JList(<<JStr("vcard")>>))>>)),
      Doc(JList(<<Registrant(VCard(<<JList(<<JStr("fn"), JObj(<<>>), JStr("Example Org")>>)>>))>>)),
      Doc(JList(<<Registrant(VCard(<<Prop(JList(<<>>), JStr("x"))>>))>>)) }

NotJson == [json |-> FALSE, doc |-> None]
Bodies == {NotJson} \cup { [json |-> TRUE, doc |-> d] : d \in Docs }

RetryAfterHeaders ==
    { NoHeader, Header(<<>>), Header(<<"s", "o", "o", "n">>),
      Header(<<"-", "1">>), Header(<<"0">>), Header(<<"2">>),
      Header(<<"6", "0">>), Header(<<"6", "1">>) }

NetworkError == [error |-> TRUE, status |-> 0, retry_after |-> NoHeader, body |-> NotJson]
Answer(status, ra, body) ==
    [error |-> FALSE, status |-> status, retry_after |-> ra, body |-> body]

\* what a session GET ends with, its transport-level retries done
Responses ==
    {NetworkError}
    \cup { Answer(200, NoHeader, b) : b \in Bodies }
    \cup { Answer(st, NoHeader, NotJson) : st \in {304, 404, 503} }
    \cup { Answer(429, h, NotJson) : h \in RetryAfterHeaders }

\* the answers that decide the timing of a lookup
TimingResponses ==
    { NetworkError, Answer(200, NoHeader, [json |-> TRUE, doc |-> GoodDoc]),
      Answer(429, NoHeader, NotJson), Answer(429, Header(<<"0">>), NotJson) }

Jitters == {0, JITTER_MAX}          \* random.uniform(0, 0.5)

----------------------------------------------------------------------------
(* The lookup as a state machine. Computation takes no time: the clock     *)
(* advances only while every started thread is blocked (in time.sleep, in  *)
(* a GET, or between two calls).                                           *)

Pending == [exc |-> "pending", val |-> None]
NoResponse == [error |-> FALSE, status |-> 0, retry_after |-> NoHeader, body |-> NotJson]

\* Per thread: pc, the position in the code; entry, who called the lookup;
\* the arguments ip, filt and the parsed version; the locals now, wait of
\* _throttle; wake, the end of the running sleep; thrRet, where _throttle
\* returns to; since, the start of the running GET or pause; result, exit,
\* text: what the lookup, main and get_ip_info ended with. History of the
\* call: gets, sleeps, throttles, lookups count the session GETs, the
\* time.sleep calls, the _throttle calls and the get_ip_registrant calls;
\* resp1, resp2 are what the two GETs ended with; readTs, readVer are the
\* _last_call_ts that the last _throttle read and the number of writes
\* before that read; ts, writeVer are the timestamp it wrote and the number
\* of writes including it; tsAtCall is _last_call_ts as main found it.

Fresh(pc) ==
    [pc |-> pc, entry |-> "none", ip |-> <<>>, filt |-> "all", version |-> 0,
     now |-> 0, wait |-> 0, wake |-> 0, thrRet |-> "get1", since |-> 0,
     gets |-> 0, sleeps |-> 0, throttles |-> 0, lookups |-> 0,
     readVer |-> 0, readTs |-> 0, writeVer |-> 0, ts |-> 0, tsAtCall |-> 0,
     resp1 |-> NoResponse, resp2 |-> NoResponse,
     result |-> Pending, exit |-> "none", text |-> NoText]

Set(t, rec) == th' = [th EXCEPT ![t] = rec]

\* the last two GETs, in order
Remember(log, e) == IF Len(log) < 2 THEN Append(log, e) ELSE <<log[2], e>>

\* main(argv), lines 193-214, down to the first blocking call: the address
\* is parsed (line 166) before get_ip_registrant is entered (line 167)
CallMain(t, ip_str, filt) ==
    /\ th[t].pc = "start"
    /\ LET ip == ip_address(ip_str)
           rec == [Fresh("thr_now") EXCEPT !.entry = "main", !.ip = ip_str,
                                           !.filt = filt, !.version = ip.version,
                                           !.tsAtCall = _last_call_ts]
       IN IF ~ip.ok
          THEN Set(t, [rec EXCEPT !.pc = "exited", !.exit = MainExit("ValueError")])
          ELSE Set(t, [rec EXCEPT !.lookups = 1])
    /\ calls' = calls + 1
    /\ UNCHANGED <<clock, _last_call_ts, tsVersion, getLog, input, output, phase>>

\* get_ip_registrant(ip_str) called by the embedding application, line 119
CallRegistrant(t) ==
    /\ th[t].pc = "idle"
    /\ calls < MaxCalls
    /\ Set(t, [Fresh("thr_now") EXCEPT !.entry = "lookup", !.lookups = 1])
    /\ calls' = calls + 1
    /\ UNCHANGED <<clock, _last_call_ts, tsVersion, getLog, input, output, phase>>

\* a thread of the application starts, with get_ip_registrant its target
StartThread(t) ==
    /\ th[t].pc = "spawned"
    /\ Set(t, [Fresh("thr_now") EXCEPT !.entry = "thread", !.lookups = 1])
    /\ calls' = calls + 1
    /\ UNCHANGED <<clock, _last_call_ts, tsVersion, getLog, input, output, phase>>

\* _throttle, lines 22-24
ThrottleNow(t) ==
    /\ th[t].pc = "thr_now"
    /\ IF MIN_SECONDS_BETWEEN_CALLS <= 0
       THEN Set(t, [th[t] EXCEPT !.pc = th[t].thrRet, !.throttles = @ + 1])
       ELSE Set(t, [th[t] EXCEPT !.pc = "thr_wait", !.now = clock, !.throttles = @ + 1])
    /\ UNCHANGED <<clock, _last_call_ts, tsVersion, calls, getLog, input, output, phase>>

\* line 25, were the wait not measured from the last call
ThrottleWaitValueNone(now, last) == 0

\* line 25, were the difference taken the other way round
ThrottleWaitValueInverted(now, last) == (now - last) - MIN_SECONDS_BETWEEN_CALLS

\* line 25
ThrottleWaitValue(now, last) == MIN_SECONDS_BETWEEN_CALLS - (now - last)

\* _throttle, lines 25-27: the read of _last_call_ts and the start of the sleep
ThrottleWait(t) ==
    /\ th[t].pc = "thr_wait"
    /\ LET wait == ThrottleWaitValue(th[t].now, _last_call_ts)
           rec == [th[t] EXCEPT !.wait = wait, !.readVer = tsVersion,
                                !.readTs = _last_call_ts]
       IN IF wait > 0
          THEN Set(t, [rec EXCEPT !.pc = "thr_sleeping", !.wake = clock + wait,
                                  !.sleeps = @ + 1])
          ELSE Set(t, [rec EXCEPT !.pc = "thr_write"])
    /\ UNCHANGED <<clock, _last_call_ts, tsVersion, calls, getLog, input, output, phase>>

\* time.sleep(wait) returns, line 27
ThrottleWake(t) ==
    /\ th[t].pc = "thr_sleeping"
    /\ clock >= th[t].wake
    /\ Set(t, [th[t] EXCEPT !.pc = "thr_write"])
    /\ UNCHANGED <<clock, _last_call_ts, tsVersion, calls, getLog, input, output, phase>>

\* _throttle, line 28
ThrottleWrite(t) ==
    /\ th[t].pc = "thr_write"
    /\ _last_call_ts' = clock
    /\ tsVersion' = tsVersion + 1
    /\ Set(t, [th[t] EXCEPT !.pc = th[t].thrRet, !.writeVer = tsVersion + 1, !.ts = clock,
                            !.now = 0, !.wait = 0, !.wake = 0])
    /\ UNCHANGED <<clock, calls, getLog, input, output, phase>>

\* _SESSION.get is entered, lines 127 and 140
IssueGet(t) ==
    /\ th[t].pc \in {"get1", "get2"}
    /\ getLog' = Remember(getLog, [t |-> t, at |-> clock, ts |-> th[t].ts,
                                   readVer |-> th[t].readVer, readTs |-> th[t].readTs,
                                   writeVer |-> th[t].writeVer])
    /\ Set(t, [th[t] EXCEPT !.pc = IF th[t].pc = "get1" THEN "in_get1" ELSE "in_get2",
                            !.gets = @ + 1, !.since = clock])
    /\ UNCHANGED <<clock, _last_call_ts, tsVersion, calls, input, output, phase>>

\* the lookup has ended with res; get_ip_info (lines 169-174) and main
\* (lines 206-214) run on when the lookup was theirs
Finish(rec, res) ==
    IF rec.entry = "main"
    THEN [rec EXCEPT !.pc = "exited", !.result = res, !.exit = MainExit(res.exc),
                     !.text = IF res.exc = "none"
                              THEN InfoText(rec.filt, [version |-> rec.version], res.val)
                              ELSE NoText]
    ELSE IF rec.entry = "thread" THEN [Fresh("joined") EXCEPT !.result = res]
    ELSE [Fresh("idle") EXCEPT !.result = res, !.since = clock]

\* _SESSION.get returns or raises, and the code runs on to its next
\* blocking call or to its end, lines 128-156
Receive(t, answers) ==
    /\ th[t].pc \in {"in_get1", "in_get2"}
    /\ \E resp \in answers, jitter \in Jitters :
         LET attempt == IF th[t].pc = "in_get1" THEN 1 ELSE 2
             next == AfterResponse(resp, attempt, jitter)
             rec == IF attempt = 1 THEN [th[t] EXCEPT !.resp1 = resp]
                    ELSE [th[t] EXCEPT !.resp2 = resp]
         IN \* a jitter is drawn on line 137 only
            /\ jitter # 0 => next.k = "sleep"
            /\ IF next.k = "sleep"
               THEN Set(t, [rec EXCEPT !.pc = "ra_sleeping", !.wake = clock + next.d,
                                       !.sleeps = @ + 1])
               ELSE Set(t, Finish(rec, next.res))
    /\ UNCHANGED <<clock, _last_call_ts, tsVersion, calls, getLog, input, output, phase>>

\* time.sleep(ra + jitter) returns and _throttle is entered, lines 137-138
RetryAfterWake(t) ==
    /\ th[t].pc = "ra_sleeping"
    /\ clock >= th[t].wake
    /\ Set(t, [th[t] EXCEPT !.pc = "thr_now", !.thrRet = "get2", !.wake = 0])
    /\ UNCHANGED <<clock, _last_call_ts, tsVersion, calls, getLog, input, output, phase>>

Started == { t \in Threads : th[t].pc # "off" }
Runnable(t) == th[t].pc \in {"start", "thr_now", "thr_wait", "thr_write", "get1", "get2"}
Sleeping(t) == th[t].pc \in {"thr_sleeping", "ra_sleeping"}

\* the blocking call of t may last one more tick
MayLast(t) ==
    \/ th[t].pc = "idle" /\ calls < MaxCalls /\ clock < th[t].since + MaxDelay
    \/ th[t].pc = "spawned" /\ clock < th[t].since + MaxDelay
    \/ th[t].pc \in {"in_get1", "in_get2"} /\ clock < th[t].since + MaxDelay
    \/ Sleeping(t) /\ clock >= th[t].wake /\ clock < th[t].wake + MaxDelay

\* time passes: one tick, or up to the next end of a sleep
Tick ==
    /\ \A t \in Started : ~Runnable(t)
    /\ LET wakes == { th[t].wake : t \in { u \in Started : Sleeping(u) /\ th[u].wake > clock } }
       IN \/ /\ \E t \in Started : MayLast(t) \/ (Sleeping(t) /\ th[t].wake > clock)
             /\ clock' = clock + 1
          \/ /\ wakes # {}
             /\ clock' = CHOOSE w \in wakes : \A v \in wakes : w <= v
    /\ UNCHANGED <<_last_call_ts, tsVersion, th, calls, getLog, input, output, phase>>

_throttle(t) ==
    \/ ThrottleNow(t)
    \/ ThrottleWait(t)
    \/ ThrottleWake(t)
    \/ ThrottleWrite(t)

\* the steps of a running lookup, the server answering from answers
get_ip_registrant(t, answers) ==
    \/ _throttle(t)
    \/ IssueGet(t)
    \/ Receive(t, answers)
    \/ RetryAfterWake(t)

main(t) ==
    \/ \E ip_str \in IpStrings, filt \in Filters : CallMain(t, ip_str, filt)
    \/ get_ip_registrant(t, Responses)

\* one call of main, in a new process (_last_call_ts = 0.0, line 18) or in
\* one that has looked addresses up before
Init ==
    /\ clock \in 0..MIN_SECONDS_BETWEEN_CALLS
    /\ _last_call_ts \in 0..clock /\ tsVersion = 0
    /\ th = [t \in Threads |-> IF t = 1 THEN Fresh("start") ELSE Off]
    /\ calls = 0 /\ getLog = <<>>
    /\ input = None /\ output = None /\ phase = "run"

Next ==
    \/ main(1)
    \/ Tick

Spec == Init /\ [][Next]_vars

\* an application that calls get_ip_registrant again and again on one thread
InitThrottle ==
    /\ clock = 0 /\ _last_call_ts = 0 /\ tsVersion = 0
    /\ th = [t \in Threads |-> IF t = 1 THEN Fresh("idle") ELSE Off]
    /\ calls = 0 /\ getLog = <<>>
    /\ input = None /\ output = None /\ phase = "run"

NextLookups ==
    \/ CallRegistrant(1)
    \/ get_ip_registrant(1, TimingResponses)
    \/ Tick

SpecThrottle == InitThrottle /\ [][NextLookups]_vars

\* an application that calls get_ip_registrant on two threads, once on each
InitConc ==
    /\ clock = 0 /\ _last_call_ts = 0 /\ tsVersion = 0
    /\ th = [t \in Threads |-> Fresh("spawned")]
    /\ calls = 0 /\ getLog = <<>>
    /\ input = None /\ output = None /\ phase = "run"

NextThreads ==
    \/ \E t \in Threads : StartThread(t)
    \/ \E t \in Threads : get_ip_registrant(t, TimingResponses)
    \/ Tick

SpecConc == InitConc /\ [][NextThreads]_vars

----------------------------------------------------------------------------
(* Claims about get_vcard_name (SpecVcard) *)

KeyOrder == <<"fn", "org", "name", "handle">>

\* the mapping under check holds a non-empty value under the k-th key
NonEmptyAt(k) ==
    JStr(KeyOrder[k]) \in DOMAIN input /\ Truthy(input[JStr(KeyOrder[k])])

FirstNonEmptyReturned ==
    \A k \in 1..4 :
        (NonEmptyAt(k) /\ \A j \in 1..(k - 1) : ~NonEmptyAt(j))
            => output = input[JStr(KeyOrder[k])]

\* C7 as stated: get_vcard_name returns the value of the first of fn, org,
\* name, handle that is present and non-empty, and None when none is.
C7_AsStated ==
    phase = "output" =>
        /\ FirstNonEmptyReturned
        /\ (\A k \in 1..4 : ~NonEmptyAt(k)) => output = None

\* C7 as amended: get_vcard_name returns the value of the first of fn, org,
\* name, handle that is present and non-empty; when none is, it returns what
\* is stored under handle: None when handle is absent or null, and the empty
\* value itself (the empty string) when handle is present and empty.
C7_FirstNonEmptyElseHandle ==
    phase = "output" =>
        /\ FirstNonEmptyReturned
        /\ (\A k \in 1..4 : ~NonEmptyAt(k)) =>
              /\ ~Truthy(output)
              /\ output = DictGet(input, JStr("handle"))

\* org is returned when fn is present but empty and org is not
C7_Witness ==
    /\ phase = "output"
    /\ JStr("fn") \in DOMAIN input /\ ~NonEmptyAt(1) /\ NonEmptyAt(2)
    /\ NonEmptyAt(3)
    /\ output = input[JStr("org")]

----------------------------------------------------------------------------
(* Claims about parse_entities (SpecEntities) *)

Children(e) == Get(e, "entities").items

RECURSIVE PathsOf(_)
\* the positions of the entities of a list: index sequences
PathsOf(items) ==
    UNION { {<<i>>} \cup { <<i>> \o p : p \in PathsOf(Children(items[i])) } :
            i \in 1..Len(items) }

RECURSIVE NodeAt(_, _)
NodeAt(items, p) ==
    IF Len(p) = 1 THEN items[p[1]] ELSE NodeAt(Children(items[p[1]]), Tail(p))

\* a registrant-role entity whose card yields a non-empty name, and the name
IsNamed(e) ==
    /\ \E i \in 1..Len(e.fields.roles.items) : e.fields.roles.items[i] = JStr("registrant")
    /\ "vcardArray" \in DOMAIN e.fields
CardName(e) == e.fields.vcardArray.items[2].items[1].items[4]

Tree == EntityList(input)
Candidates == { p \in PathsOf(Tree) : IsNamed(NodeAt(Tree, p)) }

IsPrefix(p, q) == Len(p) < Len(q) /\ SubSeq(q, 1, Len(p)) = p
Diverge(p, q) ==
    CHOOSE k \in 1..Len(p) : k <= Len(q) /\ p[k] # q[k] /\ \A j \in 1..(k - 1) : p[j] = q[j]

\* p is listed before q (preorder)
ListedBefore(p, q) ==
    IsPrefix(p, q) \/ (~IsPrefix(q, p) /\ p # q /\ p[Diverge(p, q)] < q[Diverge(p, q)])

\* p is shallower than q, or at the same depth and listed first
ShallowerOrFirst(p, q) ==
    Len(p) < Len(q) \/ (Len(p) = Len(q) /\ ListedBefore(p, q))

\* the search order of the code: where the ways to p and q part, an entity
\* of that very list (p ends there) is taken before anything nested, and
\* otherwise the one under the earlier entity of that list
SearchedBefore(p, q) ==
    \/ IsPrefix(p, q)
    \/ /\ ~IsPrefix(q, p) /\ p # q
       /\ LET k == Diverge(p, q) IN
            IF Len(p) = k /\ Len(q) > k THEN TRUE
            ELSE IF Len(q) = k /\ Len(p) > k THEN FALSE
            ELSE p[k] < q[k]

\* C3 as stated: parse_entities returns the name of the named registrant at
\* the shallowest depth of the whole tree, the first-listed one among those
\* of that depth, and None exactly when the tree holds no named registrant.
C3_AsStated ==
    phase = "output" =>
        /\ output.exc = "none"
        /\ (output.val = None) <=> (Candidates = {})
        /\ \A p \in Candidates :
              (\A q \in Candidates \ {p} : ShallowerOrFirst(p, q))
                  => output.val = CardName(NodeAt(Tree, p))

\* C3 as amended: parse_entities returns the name of the first named
\* registrant in its search order: a named registrant of the list itself,
\* the first-listed one, before anything nested; otherwise the result for
\* the nested list of the first entity, in list order, under which there is
\* a named registrant, found the same way (so a deeper registrant under an
\* earlier entity is preferred to a shallower one under a later entity).
\* It returns None exactly when the tree holds no named registrant.
C3_FirstInSearchOrder ==
    phase = "output" =>
        /\ output.exc = "none"
        /\ (output.val = None) <=> (Candidates = {})
        /\ \A p \in Candidates :
              (\A q \in Candidates \ {p} : SearchedBefore(p, q))
                  => output.val = CardName(NodeAt(Tree, p))

\* a registrant three levels down under the first entity is returned although
\* the second entity has one two levels down
C3_Witness ==
    /\ phase = "output"
    /\ <<1, 1, 1>> \in Candidates /\ <<2, 1>> \in Candidates
    /\ \A p \in Candidates : Len(p) >= 2
    /\ output.val = CardName(NodeAt(Tree, <<1, 1, 1>>))

----------------------------------------------------------------------------
(* Claims about one run of main (Spec) *)

M == th[1]

ValidAddresses ==
    { <<"9", "3", ".", "1", "8", "4", ".", "2", "1", "6", ".", "3", "4">>,
      <<"2", "0", "0", "1", ":", "d", "b", "8", ":", ":", "1">> }
InvalidAddresses == IpStrings \ ValidAddresses

\* main has ended and get_ip_registrant was called in it
Ended == M.pc = "exited" /\ M.lookups = 1

\* what the last GET of the ended lookup ended with
LastResponse == IF M.gets = 2 THEN M.resp2 ELSE M.resp1

\* the Retry-After headers that are present, an integer and at most 60
UsableRetryAfter ==
    { Header(<<"-", "1">>), Header(<<"0">>), Header(<<"2">>), Header(<<"6", "0">>) }

\* C1 as stated: after a first answer 429, a Retry-After that is present,
\* an integer and at most 60 leads to the sleep, a second _throttle and
\* exactly one more GET, any other Retry-After to no further GET and the
\* result None; a follow-up answer 429 gives None.
C1_AsStated ==
    (Ended /\ ~M.resp1.error /\ M.resp1.status = 429) =>
        IF M.resp1.retry_after \in UsableRetryAfter
        THEN /\ M.gets = 2 /\ M.throttles = 2 /\ M.sleeps >= 1
             /\ (~M.resp2.error /\ M.resp2.status = 429) => M.result = Ret(None)
        ELSE M.gets = 1 /\ M.result = Ret(None)

\* C4 as stated: when a GET raised a network exception, or the last answer
\* has a status that is not 2xx (an unresolved 429 included), the lookup
\* returns None, whatever the status and the Retry-After header.
C4_AsStated ==
    (Ended /\ (LastResponse.error \/ LastResponse.status \notin 200..299))
        => M.result = Ret(None)

\* C5 as stated: on a 2xx answer the lookup returns a name or None without
\* raising, whatever the body.
C5_AsStated ==
    (Ended /\ ~LastResponse.error /\ LastResponse.status \in 200..299)
        => M.result.exc = "none"

\* the lookup ended in an HTTP error status
HttpError == Ended /\ ~LastResponse.error /\ RaisesForStatus(LastResponse.status)

\* C6 as stated: main returns 1 exactly when the address does not parse,
\* 2 when the lookup ended in an HTTP error, and 0 otherwise, having
\* printed the result.
C6_AsStated ==
    M.pc = "exited" =>
        /\ (M.exit = "1") <=> (M.ip \in InvalidAddresses)
        /\ (M.ip \in ValidAddresses /\ HttpError) => M.exit = "2"
        /\ (M.ip \in ValidAddresses /\ ~HttpError) => (M.exit = "0" /\ M.text.form # "none")

\* C8 as stated: a call of get_ip_registrant issues at most two GETs, sleeps
\* at most three times, and then returns.
C8_AsStated ==
    /\ M.gets <= 2 /\ M.sleeps <= 3
    /\ Ended => M.result.exc = "none"

\* The counts of C8 alone hold on every path, the raising ones included.
C8_Counts == M.gets <= 2 /\ M.sleeps <= 3 /\ M.throttles <= 2

\* C10: an address that does not parse ends main, in every filter mode,
\* with no GET issued, _throttle not called and _last_call_ts as it was;
\* for an address that parses get_ip_registrant is called exactly once in
\* every filter mode, and where a text is produced that lookup has been
\* carried out (its _throttle and its GET) before.
C10_ValidationBeforeIO ==
    /\ (M.pc = "exited" /\ M.ip \in InvalidAddresses) =>
          /\ M.lookups = 0 /\ M.gets = 0 /\ M.throttles = 0 /\ getLog = <<>>
          /\ _last_call_ts = M.tsAtCall /\ tsVersion = 0
          /\ M.text.form = "none"
    /\ (M.pc # "start" /\ M.ip \in ValidAddresses) => M.lookups = 1
    /\ M.text.form # "none" =>
          /\ M.ip \in ValidAddresses
          /\ M.lookups = 1 /\ M.gets >= 1 /\ M.throttles >= 1

\* main(["256.1.1.1", "--version"]) has ended with exit code 1
C10_Witness ==
    /\ M.pc = "exited" /\ M.filt = "version" /\ M.exit = "1"
    /\ M.ip = <<"2", "5", "6", ".", "1", ".", "1", ".", "1">>
    /\ M.gets = 0

----------------------------------------------------------------------------
(* Claims about the throttle (SpecThrottle, SpecConc) *)

\* C2: on one thread every two GETs are at least the minimum interval
\* apart, and so are the timestamps that _throttle recorded before them.
C2_MinInterval ==
    \A i, j \in 1..Len(getLog) :
        i < j => /\ getLog[j].at - getLog[i].at >= MIN_SECONDS_BETWEEN_CALLS
                 /\ getLog[j].ts - getLog[i].ts >= MIN_SECONDS_BETWEEN_CALLS

\* the second lookup began at once after the first, its _throttle slept the
\* rest of the interval and its GET went out exactly one interval later
C2_Witness ==
    /\ Len(getLog) = 2 /\ calls = 2
    /\ th[1].pc = "in_get1" /\ th[1].sleeps = 1
    /\ getLog[2].at - getLog[1].at = MIN_SECONDS_BETWEEN_CALLS

\* C9: with two threads, two GETs less than the minimum interval apart
\* occur (the witness), and only through the race on _last_call_ts: the
\* _throttle before the later GET read _last_call_ts before the _throttle
\* of the earlier GET had written it.
C9_CloseOnlyByStaleRead ==
    \A i, j \in 1..Len(getLog) :
        (i < j /\ getLog[j].at - getLog[i].at < MIN_SECONDS_BETWEEN_CALLS)
            => getLog[j].readVer < getLog[i].writeVer

\* both threads read the same old timestamp and issued their GETs less than
\* the minimum interval apart
C9_Witness ==
    /\ Len(getLog) = 2
    /\ getLog[1].t # getLog[2].t
    /\ getLog[1].readTs = getLog[2].readTs /\ getLog[1].readVer = getLog[2].readVer
    /\ getLog[2].at - getLog[1].at < MIN_SECONDS_BETWEEN_CALLS

====
